---- MODULE Spec2Model ----
(***************************************************************************)
(* Model of AnswersToMarkdown.py: one conversion run of                    *)
(* convert_html_to_markdown over a parsed document tree.                   *)
(*                                                                         *)
(* Strings are sequences of one-character strings.  A filesystem path is   *)
(* a sequence of path segments (each a string) counted from the root.      *)
(* A tree node is a record                                                 *)
(*   [name, text, ref, alt, marker, children]                              *)
(* where name is the tag name ("#text" for a NavigableString), text the    *)
(* character data of a text node, ref the src (img) or href (a) attribute  *)
(* (the empty string when the attribute is absent or empty: the code       *)
(* treats both alike), alt the alt attribute, marker whether the class     *)
(* list holds "message-action-container", children the child nodes.        *)
(***************************************************************************)
EXTENDS Integers, Sequences, FiniteSets, TLC

VARIABLES pc, soup_title, has_root, content_root, files, dirs, mapping,
          copies, log, queue, md_body, final_md

vars == <<pc, soup_title, has_root, content_root, files, dirs, mapping,
          copies, log, queue, md_body, final_md>>

\* ------------------------------------------------------------------------
\* Strings
\* ------------------------------------------------------------------------
NL == "\n"

SP == " "

\* the backquote character (U+0060), which a TLA+ string cannot hold
BT == "<backquote>"

IsSpace(c) == c \in {SP, NL, "\t"}

\* [a-zA-Z]
Letters == {"a", "b", "c", "d", "e", "f", "g", "h", "i", "j", "k", "l", "m",
            "n", "o", "p", "q", "r", "s", "t", "u", "v", "w", "x", "y", "z",
            "A", "B", "C", "D", "E", "F", "G", "H", "I", "J", "K", "L", "M",
            "N", "O", "P", "Q", "R", "S", "T", "U", "V", "W", "X", "Y", "Z"}

StartsWith(s, p) == Len(s) >= Len(p) /\ SubSeq(s, 1, Len(p)) = p

EndsWith(s, p) == Len(s) >= Len(p) /\ SubSeq(s, Len(s) - Len(p) + 1, Len(s)) = p

Drop(s, n) == SubSeq(s, n + 1, Len(s))

RECURSIVE LStrip(_)
LStrip(s) == IF s # <<>> /\ IsSpace(Head(s)) THEN LStrip(Tail(s)) ELSE s

RECURSIVE RStrip(_)
RStrip(s) ==
    IF s # <<>> /\ IsSpace(s[Len(s)]) THEN RStrip(SubSeq(s, 1, Len(s) - 1)) ELSE s

\* str.strip()
Strip(s) == RStrip(LStrip(s))

\* "".join(parts)
RECURSIVE Concat(_)
Concat(parts) == IF parts = <<>> THEN <<>> ELSE Head(parts) \o Concat(Tail(parts))

\* sep.join(parts)
RECURSIVE Join(_, _)
Join(parts, sep) ==
    IF parts = <<>> THEN <<>>
    ELSE IF Len(parts) = 1 THEN Head(parts)
    ELSE Head(parts) \o sep \o Join(Tail(parts), sep)

\* s.split(sep) for a one-character separator
RECURSIVE SplitAcc(_, _, _)
SplitAcc(s, sep, cur) ==
    IF s = <<>> THEN <<cur>>
    ELSE IF Head(s) = sep THEN <<cur>> \o SplitAcc(Tail(s), sep, <<>>)
    ELSE SplitAcc(Tail(s), sep, Append(cur, Head(s)))

Split(s, sep) == SplitAcc(s, sep, <<>>)

\* sub in s
Contains(s, sub) ==
    \E i \in 1..(Len(s) - Len(sub) + 1) : SubSeq(s, i, i + Len(sub) - 1) = sub

\* ------------------------------------------------------------------------
\* Options (lines 31, 34)
\* ------------------------------------------------------------------------
STRIP_LEADING_DOT_SLASH == TRUE

FORCE_COPY_NOEXT_AS == <<".", "p", "n", "g">>

\* ------------------------------------------------------------------------
\* encode_spaces_and_normalize (lines 49-54)
\* ------------------------------------------------------------------------
RECURSIVE ReplaceSpaces(_)
ReplaceSpaces(s) ==
    IF s = <<>> THEN <<>>
    ELSE (IF Head(s) = SP THEN <<"%", "2", "0">> ELSE <<Head(s)>>)
         \o ReplaceSpaces(Tail(s))

\* a whole-string percent-encoding pass: also escapes '%' itself
RECURSIVE QuoteAll(_)
QuoteAll(s) ==
    IF s = <<>> THEN <<>>
    ELSE (IF Head(s) = SP THEN <<"%", "2", "0">>
          ELSE IF Head(s) = "%" THEN <<"%", "2", "5">>
          ELSE <<Head(s)>>)
         \o QuoteAll(Tail(s))

encode_quote_all(path_str) ==
    LET p == IF STRIP_LEADING_DOT_SLASH /\ StartsWith(path_str, <<".", "/">>)
             THEN Drop(path_str, 2) ELSE path_str
    IN  QuoteAll(p)

encode_spaces_and_normalize(path_str) ==
    LET p == IF STRIP_LEADING_DOT_SLASH /\ StartsWith(path_str, <<".", "/">>)
             THEN Drop(path_str, 2) ELSE path_str
    IN  ReplaceSpaces(p)

\* ------------------------------------------------------------------------
\* resolve_local_path (lines 56-67)
\* ------------------------------------------------------------------------
\* re.match(r'^[a-zA-Z]+://', s)
RECURSIVE LetterPrefixLen(_)
LetterPrefixLen(s) ==
    IF s # <<>> /\ Head(s) \in Letters THEN 1 + LetterPrefixLen(Tail(s)) ELSE 0

IsExternal(s) ==
    LET k == LetterPrefixLen(s)
    IN  k >= 1 /\ StartsWith(Drop(s, k), <<":", "/", "/">>)

\* urllib.parse.unquote: %XX escapes become the character they encode
PercentTable == [h \in {<<"2", "0">>, <<"2", "5">>, <<"2", "E">>, <<"2", "e">>}
                   |-> IF h = <<"2", "0">> THEN SP
                       ELSE IF h = <<"2", "5">> THEN "%" ELSE "."]

RECURSIVE Unquote(_)
Unquote(s) ==
    IF s = <<>> THEN <<>>
    ELSE IF Head(s) = "%" /\ Len(s) >= 3 /\ SubSeq(s, 2, 3) \in DOMAIN PercentTable
         THEN <<PercentTable[SubSeq(s, 2, 3)]>> \o Unquote(Drop(s, 3))
    ELSE <<Head(s)>> \o Unquote(Tail(s))

\* Path.resolve() on a filesystem without symlinks: "" and "." segments
\* vanish, ".." removes the segment before it (the root is its own parent)
RECURSIVE Canonical(_, _)
Canonical(acc, segs) ==
    IF segs = <<>> THEN acc
    ELSE LET s == Head(segs)
         IN  IF s = <<>> \/ s = <<".">> THEN Canonical(acc, Tail(segs))
             ELSE IF s = <<".", ".">>
                  THEN Canonical(IF acc = <<>> THEN acc
                                 ELSE SubSeq(acc, 1, Len(acc) - 1), Tail(segs))
             ELSE Canonical(Append(acc, s), Tail(segs))

\* base_folder / fs_path: an absolute right operand replaces the left one
JoinPath(base, fs_path) ==
    IF StartsWith(fs_path, <<"/">>) THEN Canonical(<<>>, Split(fs_path, "/"))
    ELSE Canonical(base, Split(fs_path, "/"))

\* the result is <<>> for None and <<abs_path>> otherwise
resolve_local_path(base_folder, url_or_path) ==
    IF IsExternal(url_or_path) THEN <<>>
    ELSE IF url_or_path = <<>> THEN <<>>
    ELSE LET fs0 == Unquote(url_or_path)
             fs1 == IF StartsWith(fs0, <<".", "/">>) THEN Drop(fs0, 2) ELSE fs0
         IN  <<JoinPath(base_folder, fs1)>>

\* ------------------------------------------------------------------------
\* pathlib: Path.suffix, Path.with_suffix; os.path.relpath
\* ------------------------------------------------------------------------
RECURSIVE RFind(_, _)
RFind(s, c) ==
    IF s = <<>> THEN 0 ELSE IF s[Len(s)] = c THEN Len(s)
    ELSE RFind(SubSeq(s, 1, Len(s) - 1), c)

\* name[i:] when the last dot is neither the first nor the last character
NameSuffix(name) ==
    LET i == RFind(name, ".")
    IN  IF 1 < i /\ i < Len(name) THEN SubSeq(name, i, Len(name)) ELSE <<>>

PathSuffix(path) == IF path = <<>> THEN <<>> ELSE NameSuffix(path[Len(path)])

with_suffix(path, suffix) ==
    LET name == path[Len(path)]
        old  == NameSuffix(name)
        stem == SubSeq(name, 1, Len(name) - Len(old))
    IN  [path EXCEPT ![Len(path)] = stem \o suffix]

RECURSIVE CommonLen(_, _)
CommonLen(a, b) ==
    IF a # <<>> /\ b # <<>> /\ Head(a) = Head(b)
    THEN 1 + CommonLen(Tail(a), Tail(b)) ELSE 0

\* os.path.relpath(path, start).replace(os.sep, "/")
relpath(path, start) ==
    LET k    == CommonLen(path, start)
        ups  == [i \in 1..(Len(start) - k) |-> <<".", ".">>]
        rest == Drop(path, k)
    IN  IF ups \o rest = <<>> THEN <<".">> ELSE Join(ups \o rest, <<"/">>)

\* ------------------------------------------------------------------------
\* ensure_png_copy_for_path (lines 69-100)
\* ------------------------------------------------------------------------
NoMapping == [k \in {} |-> <<>>]

\* Result of one call: the returned pair (ref, changed), the filesystem and
\* mapping after the call, the copy performed (a sequence of zero or one
\* [key, src, dest] records), whether the filesystem was consulted, and
\* whether shutil.copyfile raised.
EnsureResult(ref, changed, fs, m, copy, resolved, failed) ==
    [ref |-> ref, changed |-> changed, files |-> fs, mapping |-> m,
     copy |-> copy, resolved |-> resolved, failed |-> failed]

\* the same steps with the extension test turned into "is not .png": a file
\* with another extension is copied under the .png name as well
EnsureCopyUnlessPng(base_folder, url_or_path, fs, ds, m) ==
    LET abs_path == resolve_local_path(base_folder, url_or_path)
    IN  IF abs_path = <<>> \/ abs_path[1] \notin (fs \cup ds) \/ abs_path[1] \in ds
        THEN EnsureResult(url_or_path, FALSE, fs, m, <<>>, TRUE, FALSE)
        ELSE IF PathSuffix(abs_path[1]) = FORCE_COPY_NOEXT_AS
        THEN EnsureResult(url_or_path, FALSE, fs, m, <<>>, TRUE, FALSE)
        ELSE LET dest_abs == with_suffix(abs_path[1], FORCE_COPY_NOEXT_AS)
                 rel      == relpath(dest_abs, base_folder)
             IN  IF dest_abs \in ds
                 THEN EnsureResult(url_or_path, FALSE, fs, m, <<>>, TRUE, TRUE)
                 ELSE EnsureResult(rel, TRUE, fs \cup {dest_abs},
                          [k \in DOMAIN m \cup {url_or_path} |->
                              IF k = url_or_path THEN rel ELSE m[k]],
                          <<[key |-> url_or_path, src |-> abs_path[1],
                             dest |-> dest_abs]>>,
                          TRUE, FALSE)

\* lines 84-100
EnsureCopy(base_folder, url_or_path, fs, ds, m) ==
    LET abs_path == resolve_local_path(base_folder, url_or_path)
    IN  IF abs_path = <<>> \/ abs_path[1] \notin (fs \cup ds) \/ abs_path[1] \in ds
        THEN EnsureResult(url_or_path, FALSE, fs, m, <<>>, TRUE, FALSE)
        ELSE IF PathSuffix(abs_path[1]) # <<>>
        THEN EnsureResult(url_or_path, FALSE, fs, m, <<>>, TRUE, FALSE)
        ELSE LET dest_abs == with_suffix(abs_path[1], FORCE_COPY_NOEXT_AS)
                 rel      == relpath(dest_abs, base_folder)
             IN  IF dest_abs \in ds
                 THEN EnsureResult(url_or_path, FALSE, fs, m, <<>>, TRUE, TRUE)
                 ELSE EnsureResult(rel, TRUE, fs \cup {dest_abs},
                          [k \in DOMAIN m \cup {url_or_path} |->
                              IF k = url_or_path THEN rel ELSE m[k]],
                          <<[key |-> url_or_path, src |-> abs_path[1],
                             dest |-> dest_abs]>>,
                          TRUE, FALSE)

\* the same function without the lookup in mapping
ensure_without_mapping(base_folder, url_or_path, fs, ds, m) ==
    IF url_or_path = <<>> \/ StartsWith(url_or_path, <<"#">>)
    THEN EnsureResult(url_or_path, FALSE, fs, m, <<>>, FALSE, FALSE)
    ELSE IF IsExternal(url_or_path)
    THEN EnsureResult(url_or_path, FALSE, fs, m, <<>>, FALSE, FALSE)
    ELSE EnsureCopy(base_folder, url_or_path, fs, ds, m)

ensure_png_copy_for_path(base_folder, url_or_path, fs, ds, m) ==
    IF url_or_path = <<>> \/ StartsWith(url_or_path, <<"#">>)
    THEN EnsureResult(url_or_path, FALSE, fs, m, <<>>, FALSE, FALSE)
    ELSE IF IsExternal(url_or_path)
    THEN EnsureResult(url_or_path, FALSE, fs, m, <<>>, FALSE, FALSE)
    ELSE IF url_or_path \in DOMAIN m
    THEN EnsureResult(m[url_or_path], TRUE, fs, m, <<>>, FALSE, FALSE)
    ELSE EnsureCopy(base_folder, url_or_path, fs, ds, m)

\* ------------------------------------------------------------------------
\* Document tree (bs4 Tag / NavigableString)
\* ------------------------------------------------------------------------
Node(name, text, ref, alt, marker, children) ==
    [name |-> name, text |-> text, ref |-> ref, alt |-> alt,
     marker |-> marker, children |-> children]

Text(t) == Node("#text", t, <<>>, <<>>, FALSE, <<>>)

Elem(name, children) == Node(name, <<>>, <<>>, <<>>, FALSE, children)

Img(src, alt) == Node("img", <<>>, src, alt, FALSE, <<>>)

Anchor(href, children) == Node("a", <<>>, href, <<>>, FALSE, children)

\* <div class="message-action-container">
MarkerDiv(children) == Node("div", <<>>, <<>>, <<>>, TRUE, children)

IsText(node) == node.name = "#text"

IsMarker(node) == node.name = "div" /\ node.marker

\* the node at a path of child indices (1-based) below node
RECURSIVE NodeAt(_, _)
NodeAt(node, path) ==
    IF path = <<>> THEN node ELSE NodeAt(node.children[Head(path)], Tail(path))

\* node with the src/href of the node at path set to v
RECURSIVE SetRef(_, _, _)
SetRef(node, path, v) ==
    IF path = <<>> THEN [node EXCEPT !.ref = v]
    ELSE [node EXCEPT !.children[Head(path)] =
              SetRef(node.children[Head(path)], Tail(path), v)]

\* node with the children of the node at path replaced by kids
RECURSIVE SetChildren(_, _, _)
SetChildren(node, path, kids) ==
    IF path = <<>> THEN [node EXCEPT !.children = kids]
    ELSE [node EXCEPT !.children[Head(path)] =
              SetChildren(node.children[Head(path)], Tail(path), kids)]

\* Tag.find_all / Tag.find: the paths of the matching descendants in
\* document order.  Match is the test a call site asks for: a tag name, a
\* list of tag names, the marker's class, or "any string" (get_text).
Match(node, what) ==
    IF what = "marker" THEN IsMarker(node)
    ELSE IF what = "cell" THEN node.name \in {"th", "td"}
    ELSE IF what = "content" THEN
         node.name \in {"img", "a", "p", "ul", "ol", "table", "pre"}
    ELSE IF what = "string" THEN IsText(node)
    ELSE node.name = what

RECURSIVE find_all(_, _)
find_all(node, what) ==
    Concat([i \in 1..Len(node.children) |->
        LET c == node.children[i]
        IN  (IF Match(c, what) THEN << <<i>> >> ELSE <<>>)
            \o [j \in 1..Len(find_all(c, what)) |-> <<i>> \o find_all(c, what)[j]]])

\* Tag.get_text(): the descendant strings, concatenated
get_text(node) ==
    LET ps == find_all(node, "string")
    IN  Concat([j \in 1..Len(ps) |-> NodeAt(node, ps[j]).text])

\* Tag.get_text(strip=True): each string stripped, empty ones skipped
get_text_strip(node) ==
    LET ps == find_all(node, "string")
    IN  Concat([j \in 1..Len(ps) |-> Strip(NodeAt(node, ps[j]).text)])

\* ------------------------------------------------------------------------
\* strip_after_comment_button (lines 129-146)
\* ------------------------------------------------------------------------
\* list.index(x): the first position whose element equals x, 0 if none
FirstIndex(seq, x) ==
    IF \E i \in 1..Len(seq) : seq[i] = x
    THEN CHOOSE i \in 1..Len(seq) : seq[i] = x /\ \A j \in 1..(i - 1) : seq[j] # x
    ELSE 0

strip_after_comment_button(root) ==
    LET found == find_all(root, "marker")
    IN  IF found = <<>> THEN root
        ELSE LET where   == found[1]
                 ppath   == SubSeq(where, 1, Len(where) - 1)
                 parent  == NodeAt(root, ppath)
                 comment == NodeAt(root, where)
                 idx     == FirstIndex(parent.children, comment)
             IN  IF idx > 0
                 THEN SetChildren(root, ppath, SubSeq(parent.children, 1, idx - 1))
                 ELSE SetChildren(root, ppath,
                          SubSeq(parent.children, 1, where[Len(where)] - 1)
                          \o Drop(parent.children, where[Len(where)]))

\* ------------------------------------------------------------------------
\* node_to_markdown (lines 148-210)
\* ------------------------------------------------------------------------
HeadingLevel == [n \in {"h1", "h2", "h3", "h4", "h5", "h6"} |->
                   CASE n = "h1" -> 1 [] n = "h2" -> 2 [] n = "h3" -> 3
                     [] n = "h4" -> 4 [] n = "h5" -> 5 [] n = "h6" -> 6]

\* c * n
Repeat(c, n) == [i \in 1..n |-> c]

\* str(idx) for idx >= 1
DigitChar == <<"0", "1", "2", "3", "4", "5", "6", "7", "8", "9">>

RECURSIVE IntToStr(_)
IntToStr(n) ==
    IF n < 10 THEN <<DigitChar[n + 1]>>
    ELSE IntToStr(n \div 10) \o <<DigitChar[(n % 10) + 1]>>

\* lines 155-158
RenderHeading(level, inner) ==
    <<NL>> \o Repeat("#", level) \o <<SP>> \o Strip(inner) \o <<NL, NL>>

\* lines 159-161
RenderParagraph(inner) ==
    IF Strip(inner) # <<>> THEN Strip(inner) \o <<NL, NL>> ELSE <<>>

\* a link written with the brackets and parentheses exchanged
RenderAnchorSwapped(href_attr, inner) ==
    LET href == Strip(href_attr)
        text == IF Strip(inner) # <<>> THEN Strip(inner) ELSE href
    IN  IF href # <<>> THEN <<"(">> \o text \o <<")", "[">> \o href \o <<"]">>
        ELSE text

\* lines 168-171
RenderAnchor(href_attr, inner) ==
    LET href == Strip(href_attr)
        text == IF Strip(inner) # <<>> THEN Strip(inner) ELSE href
    IN  IF href # <<>> THEN <<"[">> \o text \o <<"]", "(">> \o href \o <<")">>
        ELSE text

\* lines 172-175
RenderImage(src_attr, alt_attr) ==
    <<"!", "[">> \o Strip(alt_attr) \o <<"]", "(">> \o Strip(src_attr) \o <<")">>

\* lines 176-189: items are the rendered, stripped <li> contents
RenderList(items, ordered) ==
    IF items = <<>> THEN <<>>
    ELSE Join([k \in 1..Len(items) |->
                  (IF ordered THEN IntToStr(k) \o <<".", SP>> ELSE <<"-", SP>>)
                  \o items[k]], <<NL>>) \o <<NL, NL>>

\* lines 190-197
Fence(text) == <<BT, BT, BT, NL>> \o text \o <<NL, BT, BT, BT, NL, NL>>

RenderCode(text) ==
    IF Contains(text, <<NL>>) THEN Fence(text)
    ELSE <<BT>> \o text \o <<BT>>

\* lines 198-207: rows is the sequence of rows, each a sequence of cell texts
TableLine(cols) == <<"|", SP>> \o Join(cols, <<SP, "|", SP>>) \o <<SP, "|">>

RenderTable(rows) ==
    IF rows = <<>> THEN <<>>
    ELSE Join([r \in 1..Len(rows) |->
                  IF r = 1
                  THEN TableLine(rows[r]) \o <<NL>>
                       \o TableLine([k \in 1..Len(rows[r]) |-> <<"-", "-", "-">>])
                  ELSE TableLine(rows[r])], <<NL>>) \o <<NL, NL>>

\* the direct children of node named name: find_all(name, recursive=False)
RECURSIVE SelectByName(_, _)
SelectByName(kids, name) ==
    IF kids = <<>> THEN <<>>
    ELSE (IF Head(kids).name = name THEN <<Head(kids)>> ELSE <<>>)
         \o SelectByName(Tail(kids), name)

RECURSIVE node_to_markdown(_)
node_to_markdown(node) ==
    LET inner(n) == Concat([k \in 1..Len(n.children) |->
                               node_to_markdown(n.children[k])])
        name     == node.name
    IN  IF IsText(node) THEN node.text
        ELSE IF name \in DOMAIN HeadingLevel
             THEN RenderHeading(HeadingLevel[name], inner(node))
        ELSE IF name = "p" THEN RenderParagraph(inner(node))
        ELSE IF name = "br" THEN <<SP, SP, NL>>
        ELSE IF name \in {"strong", "b"} THEN <<"*", "*">> \o inner(node) \o <<"*", "*">>
        ELSE IF name \in {"em", "i"} THEN <<"_">> \o inner(node) \o <<"_">>
        ELSE IF name = "a" THEN RenderAnchor(node.ref, inner(node))
        ELSE IF name = "img" THEN RenderImage(node.ref, node.alt)
        ELSE IF name \in {"ul", "ol"}
             THEN LET lis == SelectByName(node.children, "li")
                  IN  RenderList([k \in 1..Len(lis) |-> Strip(inner(lis[k]))],
                                 name = "ol")
        ELSE IF name = "code" THEN RenderCode(get_text(node))
        ELSE IF name = "pre" THEN Fence(get_text(node))
        ELSE IF name = "table"
             THEN LET trs == find_all(node, "tr")
                  IN  RenderTable([r \in 1..Len(trs) |->
                          LET tr    == NodeAt(node, trs[r])
                              cells == find_all(tr, "cell")
                          IN  [k \in 1..Len(cells) |->
                                  get_text_strip(NodeAt(tr, cells[k]))]])
        ELSE inner(node)

\* ------------------------------------------------------------------------
\* html_fragment_to_markdown (lines 212-218)
\* ------------------------------------------------------------------------
\* BeautifulSoup(str(tag), "html.parser"): the tree read back from its own
\* serialisation.  Empty strings serialise to nothing and neighbouring
\* strings come back as one string; tags and attributes come back as they
\* were.
RECURSIVE MergeStrings(_)
MergeStrings(kids) ==
    IF kids = <<>> THEN <<>>
    ELSE IF IsText(Head(kids)) /\ Head(kids).text = <<>> THEN MergeStrings(Tail(kids))
    ELSE LET rest == MergeStrings(Tail(kids))
         IN  IF IsText(Head(kids)) /\ rest # <<>> /\ IsText(Head(rest))
             THEN <<Text(Head(kids).text \o Head(rest).text)>> \o Tail(rest)
             ELSE <<Head(kids)>> \o rest

RECURSIVE Reparse(_)
Reparse(node) ==
    [node EXCEPT !.children =
        MergeStrings([k \in 1..Len(node.children) |-> Reparse(node.children[k])])]

\* re.sub(r"\n{3,}", "\n\n", md)
\* every newline that follows two newlines is dropped
CollapseNewlines(s) ==
    LET Keep(k) == ~(s[k] = NL /\ k > 2 /\ s[k - 1] = NL /\ s[k - 2] = NL)
        kept    == SelectSeq([k \in 1..Len(s) |-> k], Keep)
    IN  [j \in 1..Len(kept) |-> s[kept[j]]]

\* frag.contents holds the content root alone
html_fragment_to_markdown(root) ==
    LET frag == <<Reparse(root)>>
        md   == Concat([k \in 1..Len(frag) |-> node_to_markdown(frag[k])])
    IN  Strip(CollapseNewlines(md)) \o <<NL>>

\* ------------------------------------------------------------------------
\* convert_html_to_markdown (lines 220-244)
\* ------------------------------------------------------------------------
\* lines 236-237
IsEmptyBody(root) ==
    get_text_strip(root) = <<>> /\ find_all(root, "content") = <<>>

\* line 242; title is <<>> when soup.title or soup.title.string is None
page_title_no_strip(title, folder_name) ==
    IF title # <<>> /\ title[1] # <<>> THEN title[1] ELSE folder_name

page_title(title, folder_name) ==
    IF title # <<>> /\ title[1] # <<>> THEN Strip(title[1]) ELSE folder_name

\* line 243
FinalMd(title, body) == <<"#", SP>> \o title \o <<NL, NL>> \o Strip(body) \o <<NL>>

\* ------------------------------------------------------------------------
\* Inputs: the archive folder and the parsed page
\* ------------------------------------------------------------------------
\* the number of children of the content root
MaxKids == 2

\* folder_path and folder.name (lines 251, 263)
BaseFolder == << <<"B">> >>

FolderName == <<"B">>

InFolder(name) == Append(BaseFolder, name)

\* the regular files of the archive: two without extension, a .jpg, a .png,
\* and an extensionless file whose .png name is taken by a directory
InitFiles == {InFolder(<<"i">>), InFolder(<<"a", SP, "b">>),
              InFolder(<<"p", ".", "j", "p", "g">>),
              InFolder(<<"q", ".", "p", "n", "g">>), InFolder(<<"c">>)}

InitDirs == {<<>>, BaseFolder, InFolder(<<"d">>),
             InFolder(<<"c", ".", "p", "n", "g">>)}

RefI      == <<"i">>
RefDotI   == <<".", "/", "i">>
RefUpI    == <<".", ".", "/", "B", "/", "i">>
RefAB     == <<"a", SP, "b">>
RefABEnc  == <<"a", "%", "2", "0", "b">>
RefJpg    == <<"p", ".", "j", "p", "g">>
RefPng    == <<"q", ".", "p", "n", "g">>
RefExt    == <<"h", ":", "/", "/", "x", SP, "y", "%", "2", "0", "z">>
RefFrag   == <<"#", "f">>
RefC      == <<"c">>
RefDir    == <<"d">>
RefGone   == <<"n">>

\* the subtrees the children of the content root are drawn from; strings
\* sit inside elements, so no two strings are neighbours, as in a parsed tree
BlockPool ==
    { Img(RefI, <<>>),
      Anchor(RefI, <<Text(<<"w">>)>>),
      Img(RefDotI, <<"x">>),
      Anchor(RefABEnc, <<>>),
      Elem("div", <<Img(RefJpg, <<>>), Anchor(RefExt, <<Text(<<"w">>)>>)>>),
      Img(RefC, <<>>),
      Elem("p", <<Elem("b", <<Text(<<"x">>)>>), Text(<<SP>>),
                  Elem("i", <<Text(<<"y">>)>>), Text(<<SP>>),
                  Anchor(<<"z">>, <<Text(<<"w">>)>>)>>),
      Elem("p", <<Text(<<SP>>)>>),
      MarkerDiv(<<Text(<<"c">>)>>),
      Elem("div", <<Text(<<"x">>), MarkerDiv(<<>>), Anchor(RefI, <<Text(<<"w">>)>>)>>),
      Elem("div", <<Elem("span", <<Text(<<"x", NL, NL, NL, "y">>)>>),
                    Elem("h2", <<Text(<<SP, "T", SP>>)>>)>>),
      Elem("div", <<Anchor(RefFrag, <<>>), Img(RefDir, <<>>), Img(RefGone, <<>>),
                    Img(RefPng, <<>>), Img(RefUpI, <<>>), Elem("br", <<>>),
                    Img(RefAB, <<>>), Anchor(<<>>, <<Text(<<"w">>)>>)>>),
      Elem("div", <<Elem("ul", <<Elem("li", <<Text(<<"A">>)>>),
                                 Elem("li", <<Text(<<"B">>)>>)>>),
                    Elem("ol", <<Elem("li", <<Text(<<"A">>)>>)>>),
                    Elem("code", <<Text(<<"x">>)>>),
                    Elem("pre", <<Text(<<"x", NL, "y">>)>>),
                    Elem("table", <<Elem("tr", <<Elem("th", <<Text(<<SP, "A">>)>>),
                                                 Elem("td", <<Text(<<"B">>)>>)>>)>>)>>)
    }

KidSeqs == UNION {[1..n -> BlockPool] : n \in 0..MaxKids}

\* soup.title.string: <<>> for None, <<s>> for a string s
TitlePool == { <<>>,
               << <<SP, "T", NL, NL, NL, "U", SP>> >>,
               << <<"T", SP, "-", SP, "M", "i", "c", "r", "o", "s", "o", "f", "t",
                    SP, "コ", "ミ", "ュ", "ニ", "テ", "ィ">> >> }

\* ------------------------------------------------------------------------
\* State machine of one run of convert_html_to_markdown
\* ------------------------------------------------------------------------
Init ==
    /\ pc = "select"
    /\ has_root \in BOOLEAN
    /\ soup_title \in TitlePool
    /\ \E kids \in KidSeqs :
          content_root = Elem("div", IF has_root THEN kids ELSE <<>>)
    /\ files = InitFiles
    /\ dirs = InitDirs
    /\ mapping = NoMapping
    /\ copies = <<>>
    /\ log = <<>>
    /\ queue = <<>>
    /\ md_body = <<>>
    /\ final_md = <<>>

\* lines 221-227: select_one and the missing-root error_exit
SelectRoot ==
    /\ pc = "select"
    /\ IF has_root
       THEN /\ pc' = "imgs"
            /\ queue' = find_all(content_root, "img")
       ELSE /\ pc' = "aborted"
            /\ queue' = queue
    /\ UNCHANGED <<soup_title, has_root, content_root, files, dirs, mapping,
                   copies, log, md_body, final_md>>

\* one iteration of a loop of preprocess_links_and_images (lines 110-117
\* for img, lines 120-127 for a) on the node at the head of the queue
PreprocessNode ==
    LET path == Head(queue)
        src  == NodeAt(content_root, path).ref
        r    == ensure_png_copy_for_path(BaseFolder, src, files, dirs, mapping)
        new  == IF r.changed THEN r.ref ELSE src
        attr == encode_spaces_and_normalize(new)
    IN  IF src = <<>>
        THEN /\ queue' = Tail(queue)
             /\ UNCHANGED <<pc, content_root, files, mapping, copies, log>>
        ELSE IF r.failed
        THEN /\ pc' = "crashed"
             /\ UNCHANGED <<queue, content_root, files, mapping, copies, log>>
        ELSE /\ queue' = Tail(queue)
             /\ content_root' = SetRef(content_root, path, attr)
             /\ files' = r.files
             /\ mapping' = r.mapping
             /\ copies' = copies \o r.copy
             /\ log' = Append(log, [key |-> src, ref |-> r.ref,
                                    changed |-> r.changed, resolved |-> r.resolved,
                                    copied |-> r.copy # <<>>,
                                    created |-> r.files # files,
                                    added |-> r.mapping # mapping,
                                    attr |-> attr, path |-> path])
             /\ pc' = pc

PreprocessImg ==
    /\ pc = "imgs"
    /\ queue # <<>>
    /\ PreprocessNode
    /\ UNCHANGED <<soup_title, has_root, dirs, md_body, final_md>>

\* line 120: the img loop is over, find_all("a")
ImgLoopEnd ==
    /\ pc = "imgs"
    /\ queue = <<>>
    /\ pc' = "anchors"
    /\ queue' = find_all(content_root, "a")
    /\ UNCHANGED <<soup_title, has_root, content_root, files, dirs, mapping,
                   copies, log, md_body, final_md>>

PreprocessAnchor ==
    /\ pc = "anchors"
    /\ queue # <<>>
    /\ PreprocessNode
    /\ UNCHANGED <<soup_title, has_root, dirs, md_body, final_md>>

\* preprocess_links_and_images returns (line 230)
AnchorLoopEnd ==
    /\ pc = "anchors"
    /\ queue = <<>>
    /\ pc' = "strip"
    /\ UNCHANGED <<soup_title, has_root, content_root, files, dirs, mapping,
                   copies, log, queue, md_body, final_md>>

\* line 233
StripAfterCommentButton ==
    /\ pc = "strip"
    /\ content_root' = strip_after_comment_button(content_root)
    /\ pc' = "check"
    /\ UNCHANGED <<soup_title, has_root, files, dirs, mapping, copies, log,
                   queue, md_body, final_md>>

\* lines 236-238
EmptyCheck ==
    /\ pc = "check"
    /\ pc' = IF IsEmptyBody(content_root) THEN "aborted" ELSE "render"
    /\ UNCHANGED <<soup_title, has_root, content_root, files, dirs, mapping,
                   copies, log, queue, md_body, final_md>>

\* line 240
Render ==
    /\ pc = "render"
    /\ md_body' = html_fragment_to_markdown(content_root)
    /\ pc' = "assemble"
    /\ UNCHANGED <<soup_title, has_root, content_root, files, dirs, mapping,
                   copies, log, queue, final_md>>

\* lines 242-244
Assemble ==
    /\ pc = "assemble"
    /\ final_md' = FinalMd(page_title(soup_title, FolderName), md_body)
    /\ pc' = "done"
    /\ UNCHANGED <<soup_title, has_root, content_root, files, dirs, mapping,
                   copies, log, queue, md_body>>

Next ==
    \/ SelectRoot
    \/ PreprocessImg
    \/ ImgLoopEnd
    \/ PreprocessAnchor
    \/ AnchorLoopEnd
    \/ StripAfterCommentButton
    \/ EmptyCheck
    \/ Render
    \/ Assemble

Spec == Init /\ [][Next]_vars

TypeOK ==
    /\ pc \in {"select", "imgs", "anchors", "strip", "check", "render",
               "assemble", "done", "aborted", "crashed"}
    /\ has_root \in BOOLEAN

\* ------------------------------------------------------------------------
\* Properties
\* ------------------------------------------------------------------------
Range(f) == {f[x] : x \in DOMAIN f}

\* the normalisation pass has run to its end
Preprocessed == pc \in {"strip", "check", "render", "assemble", "done"}

\* Reference classes of the specification: empty, fragment, external, local
IsLocal(r) == r # <<>> /\ ~StartsWith(r, <<"#">>) /\ ~IsExternal(r)

Target(r) == resolve_local_path(BaseFolder, r)[1]

\* the last path segment with ".png" written after it
PngAppended(path) == [path EXCEPT ![Len(path)] = @ \o <<".", "p", "n", "g">>]

ExtensionlessFile(r) ==
    IsLocal(r) /\ Target(r) \in InitFiles /\ PathSuffix(Target(r)) = <<>>

CopiesOf(r) == {k \in DOMAIN copies : copies[k].key = r}

\* C1: once the normalisation pass is over, every reference string that
\* names an existing extensionless file was copied exactly once, to the
\* source path with ".png" appended, and every img/a node that carried the
\* string holds one and the same rewritten reference ending in ".png".
C1_OneCopyPerReference ==
    Preprocessed =>
        \A e \in Range(log) :
            ExtensionlessFile(e.key) =>
                /\ Cardinality(CopiesOf(e.key)) = 1
                /\ \A k \in CopiesOf(e.key) :
                      /\ copies[k].src = Target(e.key)
                      /\ copies[k].dest = PngAppended(Target(e.key))
                      /\ copies[k].dest \in files
                /\ \A f \in Range(log) :
                      f.key = e.key =>
                          /\ f.attr = e.attr
                          /\ EndsWith(f.attr, <<".", "p", "n", "g">>)
                          /\ pc = "strip" => NodeAt(content_root, f.path).ref = f.attr

C1_Witness ==
    /\ pc = "strip"
    /\ \E a, b \in DOMAIN log :
          a < b /\ log[a].key = log[b].key /\ ExtensionlessFile(log[a].key)
    /\ copies # <<>>

\* C2 as stated: no two copies of one run have the same source file.
C2_OneCopyPerSourcePath ==
    \A a, b \in DOMAIN copies : copies[a].src = copies[b].src => a = b

\* C3 as stated: the returned document has no run of three newlines and
\* ends with exactly one newline.
C3_NewlineDiscipline ==
    pc = "done" =>
        /\ ~Contains(final_md, <<NL, NL, NL>>)
        /\ EndsWith(final_md, <<NL>>)
        /\ ~EndsWith(final_md, <<NL, NL>>)

\* the tree cut at the first marker in document order: the marker, its
\* later siblings and the later siblings of each of its ancestors go
RECURSIVE CutPath(_, _)
CutPath(node, path) ==
    IF path = <<>> THEN node
    ELSE IF Len(path) = 1
    THEN [node EXCEPT !.children = SubSeq(node.children, 1, Head(path) - 1)]
    ELSE [node EXCEPT !.children =
              Append(SubSeq(node.children, 1, Head(path) - 1),
                     CutPath(node.children[Head(path)], Tail(path)))]

TrimInDocumentOrder(root) ==
    LET found == find_all(root, "marker")
    IN  IF found = <<>> THEN root ELSE CutPath(root, found[1])

\* C4 as stated: the trim step removes the marker and everything after it
\* in document order, wherever the marker sits, and changes nothing when
\* there is no marker.
C4_TrimInDocumentOrder ==
    [][pc = "strip" => content_root' = TrimInDocumentOrder(content_root)]_vars

\* C5 as stated: every returned document has a non-empty body after its
\* title line.
C5_NeverEmptyBody ==
    pc = "done" =>
        /\ Strip(md_body) # <<>>
        /\ final_md # <<"#", SP>> \o page_title(soup_title, FolderName) \o <<NL, NL, NL>>

\* C6 as stated: at the end of a run every copied file is named by a
\* reference in the produced Markdown; a run that produces no Markdown has
\* copied nothing.
C6_CopiesAreReferenced ==
    pc \in {"done", "aborted"} =>
        \A k \in DOMAIN copies :
            /\ pc = "done"
            /\ Contains(final_md,
                   encode_spaces_and_normalize(relpath(copies[k].dest, BaseFolder)))

\* the site-name suffix of the specification, and the title without it
SiteSuffix == <<"-", SP, "M", "i", "c", "r", "o", "s", "o", "f", "t", SP,
                "コ", "ミ", "ュ", "ニ", "テ", "ィ">>

WithoutSiteSuffix(raw) ==
    IF EndsWith(RStrip(raw), SiteSuffix)
    THEN RStrip(SubSeq(RStrip(raw), 1, Len(RStrip(raw)) - Len(SiteSuffix)))
    ELSE raw

TitleLine(title) == <<"#", SP>> \o title \o <<NL, NL>>

\* C7 as stated: the title line carries the raw title with the site-name
\* suffix removed, an unsuffixed title unchanged, the fallback label when
\* the page has no title.
C7_SuffixStripped ==
    pc = "done" =>
        StartsWith(final_md,
            TitleLine(IF soup_title = <<>> THEN FolderName
                      ELSE WithoutSiteSuffix(soup_title[1])))

\* C7 (amended): the title line carries the raw title with its leading and
\* trailing whitespace removed and nothing else changed (a site-name suffix
\* stays), and the fallback label when the page has no title.
C7_TitleTrimmedOnly ==
    pc = "done" =>
        StartsWith(final_md,
            TitleLine(IF soup_title = <<>> THEN FolderName
                      ELSE LStrip(RStrip(soup_title[1]))))

C7_Witness ==
    /\ pc = "done"
    /\ soup_title # <<>>
    /\ EndsWith(soup_title[1], SiteSuffix)
    /\ StartsWith(final_md, TitleLine(soup_title[1]))

OtherExtensionFile(r) ==
    /\ IsLocal(r)
    /\ Target(r) \in InitFiles
    /\ \E k \in 2..(Len(Target(r)[Len(Target(r))]) - 1) :
          Target(r)[Len(Target(r))][k] = "."
    /\ ~EndsWith(Target(r)[Len(Target(r))], <<".", "p", "n", "g">>)

\* C8: a call of ensure_png_copy_for_path on a local reference to an
\* existing file with an extension other than ".png" returns the reference
\* it was given, reports no change, creates no file and leaves the mapping
\* as it was.
C8_OtherExtensionUntouched ==
    \A e \in Range(log) :
        OtherExtensionFile(e.key) =>
            /\ e.ref = e.key
            /\ ~e.changed
            /\ ~e.copied
            /\ ~e.created
            /\ ~e.added

C8_Witness ==
    /\ Preprocessed
    /\ \E e \in Range(log) : OtherExtensionFile(e.key) /\ e.resolved

SpacesEncoded(orig) ==
    Concat([k \in 1..Len(orig) |->
               IF orig[k] = SP THEN <<"%", "2", "0">> ELSE <<orig[k]>>])

\* C9: a reference matching ^[a-zA-Z]+:// is never resolved against the
\* filesystem, never copied, never entered in the mapping, and the
\* attribute written back is the original with each space replaced by
\* "%20" and every other character, "%" included, kept.
C9_ExternalOnlySpaceEncoded ==
    \A e \in Range(log) :
        IsExternal(e.key) =>
            /\ ~e.resolved
            /\ ~e.copied
            /\ ~e.created
            /\ ~e.added
            /\ e.attr = SpacesEncoded(e.key)
            /\ pc = "strip" => NodeAt(content_root, e.path).ref = e.attr

C9_Witness ==
    /\ pc = "strip"
    /\ \E e \in Range(log) :
          /\ IsExternal(e.key)
          /\ Contains(e.key, <<SP>>)
          /\ Contains(e.key, <<"%", "2", "0">>)
          /\ e.attr # e.key

Plain(s) == s # <<>> /\ Strip(s) = s

HoldsText(node) ==
    Len(node.children) = 1 /\ IsText(node.children[1]) /\ Plain(node.children[1].text)

IsBoldItalicLink(n) ==
    /\ n.name = "p"
    /\ Len(n.children) = 5
    /\ n.children[1].name = "b" /\ HoldsText(n.children[1])
    /\ n.children[2] = Text(<<SP>>)
    /\ n.children[3].name = "i" /\ HoldsText(n.children[3])
    /\ n.children[4] = Text(<<SP>>)
    /\ n.children[5].name = "a" /\ HoldsText(n.children[5])
    /\ Plain(n.children[5].ref)

BoldItalicLinkText(n) ==
    <<"*", "*">> \o n.children[1].children[1].text \o <<"*", "*", SP, "_">>
    \o n.children[3].children[1].text \o <<"_", SP, "[">>
    \o n.children[5].children[1].text \o <<"]", "(">> \o n.children[5].ref
    \o <<")", NL, NL>>

InnerText(n) ==
    Concat([k \in 1..Len(n.children) |-> node_to_markdown(n.children[k])])

====
